---- MODULE Spec2Model ----
(***************************************************************************)
(* Model of the page4u MCP server (src/src/index.ts): seven tools, each a  *)
(* handler that builds one HTTP request, suspends at the fetch inside      *)
(* apiRequest, and renders the decoded envelope as text.                   *)
(*                                                                         *)
(* Conventions.  A JavaScript object is a TLA+ function whose DOMAIN is    *)
(* the set of keys it defines: reading a key outside the DOMAIN is         *)
(* JavaScript's undefined.  A JSON text is represented by the JSON value   *)
(* it denotes.  Strings are TLA+ strings and are built with \o exactly as  *)
(* the template literals of the source build them.                         *)
(***************************************************************************)
EXTENDS Integers, Sequences, FiniteSets, TLC

VARIABLES
    API_KEY,    \* index.ts:14, the process-wide credential
    runtime,    \* the Node.js release the process runs on
    calls       \* the tool invocations of this process, by invocation id

vars == <<API_KEY, runtime, calls>>

(***************************************************************************)
(* Bounds of the model.                                                    *)
(***************************************************************************)
MaxInFlight == 2    \* invocations in flight at once (SpecConc)
MaxAssets == 2      \* entries of deploy_page's assets array
MaxFields == 2      \* optional fields given to update_page
MaxRecords == 2     \* records in the data array of a list response

Ids == 1..MaxInFlight

(***************************************************************************)
(* JavaScript helpers.                                                     *)
(***************************************************************************)
\* obj.k !== undefined
Defined(obj, k) == k \in DOMAIN obj

\* the truthiness of an optional string: defined and not ""
Truthy(obj, k) == Defined(obj, k) /\ obj[k] # ""

RECURSIVE Join(_, _)
\* Array.prototype.join
Join(parts, sep) ==
    IF Len(parts) = 0 THEN ""
    ELSE IF Len(parts) = 1 THEN parts[1]
    ELSE parts[1] \o sep \o Join(Tail(parts), sep)

\* encodeURIComponent, on the slugs of the model
encodeURIComponent(s) == IF s = "a b" THEN "a%20b" ELSE s

\* new Date(s).toLocaleDateString(), en-US, on the timestamps of the model
toLocaleDateString(s) ==
    CASE s = "2024-01-15T10:00:00Z" -> "1/15/2024"
      [] s = "2024-02-01T08:30:00Z" -> "2/1/2024"
      [] OTHER -> "Invalid Date"

\* three digits, zero padded
Pad3(n) ==
    IF n < 10 THEN "00" \o ToString(n)
    ELSE IF n < 100 THEN "0" \o ToString(n)
    ELSE ToString(n)

RECURSIVE toLocaleString(_)
\* Number.prototype.toLocaleString(), en-US, on naturals
toLocaleString(n) ==
    IF n < 1000 THEN ToString(n)
    ELSE toLocaleString(n \div 1000) \o "," \o Pad3(n % 1000)

(***************************************************************************)
(* Configuration (index.ts:14-18).                                         *)
(***************************************************************************)
Credentials == {"", "p4u_test"}     \* PAGE4U_API_KEY unset, or set

BASE_URL == "https://page4u.ai"     \* PAGE4U_API_URL unset

ConfigMessage ==
    "PAGE4U_API_KEY environment variable is not set. Get your key at https://page4u.ai/dashboard/settings"

(***************************************************************************)
(* One invocation: the handler's locals, the request it sent, the response *)
(* it got and what it returned or threw.                                   *)
(*   pc        "idle", "fetching" (suspended at await fetch), "reading"    *)
(*             (suspended at await res.json()) or "done"                   *)
(*   zips      how many times the handler constructed an AdmZip            *)
(*   fetches   how many times fetch was called on behalf of the invocation *)
(***************************************************************************)
Idle ==
    [pc |-> "idle", tool |-> "", args |-> <<>>, formData |-> <<>>,
     zips |-> 0, fetches |-> 0, request |-> <<>>, response |-> <<>>,
     result |-> <<>>]

\* the handler returns textResult(text)
textResult(text) ==
    [kind |-> "return", content |-> <<[type |-> "text", text |-> text]>>]

\* textResult(undefined): the text key holds undefined
textResultUndefined ==
    [kind |-> "return", content |-> <<[type |-> "text"]>>]

\* throw new <name>(message)
Throw(name, message) == [kind |-> "throw", name |-> name, message |-> message]

\* the invocation ends with result r
Finish(c, r) == [c EXCEPT !.pc = "done", !.result = r]

IsText(r) == r # <<>> /\ r.kind = "return"
IsError(r) == r # <<>> /\ r.kind = "throw"
\* the text of a returned result, "" when it has none
TextOf(r) ==
    IF IsText(r) /\ Defined(r.content[1], "text") THEN r.content[1].text ELSE ""

(***************************************************************************)
(* apiRequest (index.ts:30-63), up to its await: the credential check and  *)
(* the call of fetch.                                                      *)
(***************************************************************************)

\* a check for a nullish key: `API_KEY == null`
KeyMissingNullish(key) == FALSE

\* !API_KEY
KeyMissing(key) == key = ""

\* The body argument is [kind |-> "form", value |-> fields] for a FormData,
\* [kind |-> "json", value |-> obj] for a record and [kind |-> "none"] when it
\* is omitted.  A FormData is passed through; a record is JSON.stringify'd.
RequestBody(body) ==
    IF body.kind = "form" THEN body
    ELSE IF body.kind = "json" THEN [kind |-> "json", value |-> body.value]
    ELSE [kind |-> "none"]

RequestHeaders(body) ==
    IF body.kind = "json"
    THEN [Authorization |-> "Bearer " \o API_KEY, XPage4UClient |-> "mcp",
          ContentType |-> "application/json"]
    ELSE [Authorization |-> "Bearer " \o API_KEY, XPage4UClient |-> "mcp"]

apiRequest(c, method, path, body) ==
    IF KeyMissing(API_KEY)
    THEN Finish(c, Throw("Error", ConfigMessage))
    ELSE [c EXCEPT !.pc = "fetching",
                   !.fetches = @ + 1,
                   !.request = [method |-> method,
                                url |-> BASE_URL \o "/api/v1" \o path,
                                headers |-> RequestHeaders(body),
                                body |-> RequestBody(body)]]

NoBody == [kind |-> "none"]

(***************************************************************************)
(* apiRequest after its awaits (index.ts:55-62): the fetch settles, the    *)
(* body is read and parsed and the envelope is inspected.  A response is   *)
(*   [kind |-> "reject"]            fetch rejects (network failure)        *)
(*   [kind |-> "bodyFails"]         fetch resolves and the body stream     *)
(*                                  fails: res.json() rejects              *)
(*   [kind |-> "notJson", body |-> t]  the body is the text t, which is no *)
(*                                  JSON text: res.json() rejects          *)
(*   [kind |-> "null"]              the body is the JSON text null         *)
(*   [kind |-> "json", json |-> J]  the body is the JSON object J          *)
(* The outcome is [ok |-> TRUE, json |-> J] or [ok |-> FALSE, error |-> e].*)
(***************************************************************************)
\* the releases the package supports (README: Node.js >= 18); 20 and 22
\* word the parse error alike
Runtimes == {"node18", "node20"}

\* the bodies of the model that are no JSON text
NotJsonBodies == {"<html>oops</html>", ""}

\* the message of the SyntaxError JSON.parse throws on the bodies of the model
JSONParseMessage(node, body) ==
    IF body = "" THEN "Unexpected end of JSON input"
    ELSE IF node = "node18" THEN "Unexpected token < in JSON at position 0"
    ELSE "Unexpected token '<', \"" \o body \o "\" is not valid JSON"

\* the message alone, the code dropped
ApiErrorMessageOnly(err) ==
    IF Defined(err, "message") THEN err.message ELSE "undefined"

\* `${json.error.code}: ${json.error.message}`
ApiErrorMessage(err) ==
    (IF Defined(err, "code") THEN err.code ELSE "undefined") \o ": " \o
    (IF Defined(err, "message") THEN err.message ELSE "undefined")

\* !json.success
NotSuccess(json) == ~Defined(json, "success") \/ json.success = FALSE

apiResponse(resp) ==
    CASE resp.kind = "reject" ->
           [ok |-> FALSE, error |-> Throw("TypeError", "fetch failed")]
      [] resp.kind = "bodyFails" ->
           [ok |-> FALSE, error |-> Throw("TypeError", "terminated")]
      [] resp.kind = "notJson" ->
           [ok |-> FALSE,
            error |-> Throw("SyntaxError",
                            JSONParseMessage(runtime, resp.body))]
      [] resp.kind = "null" ->
           [ok |-> FALSE,
            error |-> Throw("TypeError",
                "Cannot read properties of null (reading 'success')")]
      [] OTHER ->
           IF NotSuccess(resp.json)
           THEN IF Defined(resp.json, "error")
                THEN [ok |-> FALSE,
                      error |-> Throw("Error", ApiErrorMessage(resp.json.error))]
                ELSE [ok |-> FALSE,
                      error |-> Throw("TypeError",
                          "Cannot read properties of undefined (reading 'code')")]
           ELSE [ok |-> TRUE, json |-> resp.json]

\* reading property p of data when data is undefined
UndefinedRead(p) ==
    Throw("TypeError",
          "Cannot read properties of undefined (reading '" \o p \o "')")

(***************************************************************************)
(* The tool-calling boundary (registerTool, index.ts:71): the arguments    *)
(* are parsed against the tool's inputSchema before the handler is called. *)
(***************************************************************************)
InvalidParams(tool) ==
    Throw("McpError", "Invalid arguments for tool " \o tool)

\* z.string()
RequiredString(args, k) == Defined(args, k)

\* z.enum(values).optional()
OptionalEnum(args, k, values) == ~Defined(args, k) \/ args[k] \in values

(***************************************************************************)
(* list_pages (index.ts:71-106).                                           *)
(***************************************************************************)
PageStatuses == {"draft", "published", "archived"}

list_pages_inputSchema(args) == OptionalEnum(args, "status", PageStatuses)

list_pages_handler(c) ==
    LET path == IF Truthy(c.args, "status")
                THEN "/pages?status=" \o c.args.status
                ELSE "/pages"
    IN  apiRequest(c, "GET", path, NoBody)


\* total || data.length
TotalOrLengthFalsy(json) ==
    IF Defined(json, "total") /\ json.total # 0 THEN json.total
    ELSE Len(json.data)

\* total ?? data.length
TotalOrLength(json) ==
    IF Defined(json, "total") THEN json.total ELSE Len(json.data)

PageLine(p) ==
    "- " \o p.slug \o " | " \o
    (IF Truthy(p, "businessName") THEN p.businessName ELSE "(no name)") \o
    " | " \o p.status \o " | " \o toLocaleDateString(p.createdAt)

list_pages_render(args, json) ==
    IF ~Defined(json, "data") THEN UndefinedRead("length")
    ELSE IF Len(json.data) = 0 THEN textResult("No pages found.")
    ELSE textResult(ToString(TotalOrLength(json)) \o " page(s):\n\n" \o
                    Join([n \in 1..Len(json.data) |-> PageLine(json.data[n])], "\n"))

(***************************************************************************)
(* get_page (index.ts:108-124).                                            *)
(***************************************************************************)
get_page_inputSchema(args) == RequiredString(args, "slug")

get_page_handler(c) ==
    apiRequest(c, "GET", "/pages/" \o encodeURIComponent(c.args.slug), NoBody)

\* the keys of a page record, in the order the backend writes them
PageKeys == <<"slug", "businessName", "status", "createdAt">>

RECURSIVE PrettyMembers(_, _)
\* the members of JSON.stringify(obj, null, 2) for the keys still to print
PrettyMembers(obj, keys) ==
    IF Len(keys) = 0 THEN <<>>
    ELSE IF Defined(obj, Head(keys))
         THEN <<"  \"" \o Head(keys) \o "\": \"" \o obj[Head(keys)] \o "\"">>
              \o PrettyMembers(obj, Tail(keys))
         ELSE PrettyMembers(obj, Tail(keys))

\* JSON.stringify(data, null, 2) of a flat record of strings
JSONStringifyPretty(obj) ==
    IF DOMAIN obj = {} THEN "{}"
    ELSE "{\n" \o Join(PrettyMembers(obj, PageKeys), ",\n") \o "\n}"

get_page_render(args, json) ==
    IF ~Defined(json, "data") THEN textResultUndefined
    ELSE textResult(JSONStringifyPretty(json.data))

(***************************************************************************)
(* deploy_page (index.ts:126-207).                                         *)
(***************************************************************************)
Locales == {"he", "en"}

deploy_page_inputSchema(args) ==
    /\ RequiredString(args, "html")
    /\ OptionalEnum(args, "locale", Locales)

\* Buffer.from(content, "base64"), on the contents of the model; characters
\* outside the base64 alphabet are skipped, so "!" decodes to no bytes
Base64Decode(content) ==
    CASE content = "aGk=" -> "hi"
      [] content = "Ynll" -> "bye"
      [] OTHER -> ""

\* AdmZip.addFile (adm-zip 0.5): an entry of that name is updated in place,
\* otherwise a new entry is appended.  A zip is its sequence of entries.
addFile(zip, entryName, data) ==
    IF \E n \in DOMAIN zip : zip[n].entryName = entryName
    THEN [n \in DOMAIN zip |->
            IF zip[n].entryName = entryName
            THEN [entryName |-> entryName, data |-> data]
            ELSE zip[n]]
    ELSE Append(zip, [entryName |-> entryName, data |-> data])

RECURSIVE AddAssets(_, _)
\* for (const asset of assets) zip.addFile(asset.filename, ...)
AddAssets(zip, assets) ==
    IF Len(assets) = 0 THEN zip
    ELSE AddAssets(addFile(zip, Head(assets).filename,
                           Base64Decode(Head(assets).content)),
                   Tail(assets))


\* `if (assets)`: an empty array is truthy
HasAssetsTruthy(args) == Defined(args, "assets")

\* assets && assets.length > 0
HasAssets(args) == Defined(args, "assets") /\ Len(args.assets) > 0

\* the "file" part of the form (index.ts:167-186)
FilePart(args) ==
    IF HasAssets(args)
    THEN [name |-> "file", filename |-> "site.zip", type |-> "application/zip",
          zip |-> AddAssets(addFile(<<>>, "index.html", args.html), args.assets)]
    ELSE [name |-> "file", filename |-> "index.html", type |-> "text/html",
          text |-> args.html]

\* if (args[k]) formData.append(k, args[k])
OptionalPart(args, k) ==
    IF Truthy(args, k) THEN <<[name |-> k, value |-> args[k]]>> ELSE <<>>

deploy_page_handler(c) ==
    LET formData == <<FilePart(c.args)>> \o OptionalPart(c.args, "slug")
                    \o OptionalPart(c.args, "locale")
                    \o OptionalPart(c.args, "whatsapp")
        built == [c EXCEPT !.formData = formData,
                           !.zips = IF HasAssets(c.args) THEN 1 ELSE 0]
    IN  apiRequest(built, "POST", "/pages",
                   [kind |-> "form", value |-> formData])

WarningLine(w) == "- " \o w

deploy_page_render(args, json) ==
    IF ~Defined(json, "data") THEN UndefinedRead("url")
    ELSE LET data == json.data IN
         textResult(
            "Page deployed!\n\nURL: " \o data.url \o "\nSlug: " \o data.slug \o
            (IF Truthy(data, "businessName")
             THEN "\nName: " \o data.businessName ELSE "") \o
            (IF HasAssets(args)
             THEN "\nAssets: " \o ToString(Len(args.assets)) \o " file(s) included"
             ELSE "") \o
            (IF Defined(data, "warnings") /\ Len(data.warnings) > 0
             THEN "\n\nWarnings:\n" \o Join([n \in 1..Len(data.warnings) |-> WarningLine(data.warnings[n])],
                                         "\n")
             ELSE ""))

(***************************************************************************)
(* update_page (index.ts:209-251).                                         *)
(***************************************************************************)
UpdateFields ==
    {"businessName", "headline", "description", "phone", "email", "whatsapp",
     "primaryColor", "secondaryColor", "googleAnalyticsId", "facebookPixelId"}

update_page_inputSchema(args) == RequiredString(args, "slug")

\* ({ slug, ...fields })
RestFields(args) == [k \in DOMAIN args \ {"slug"} |-> args[k]]


\* `if (v) body[k] = v`: an empty string is dropped
UpdateBodyTruthy(fields) ==
    [k \in {f \in DOMAIN fields : Truthy(fields, f)} |-> fields[k]]

\* for (const [k, v] of Object.entries(fields)) if (v !== undefined) body[k] = v
UpdateBody(fields) ==
    [k \in {f \in DOMAIN fields : Defined(fields, f)} |-> fields[k]]

update_page_handler(c) ==
    LET body == UpdateBody(RestFields(c.args)) IN
    IF Cardinality(DOMAIN body) = 0
    THEN Finish(c, textResult("No fields to update."))
    ELSE apiRequest(c, "PUT", "/pages/" \o encodeURIComponent(c.args.slug),
                    [kind |-> "json", value |-> body])

update_page_render(args, json) ==
    IF ~Defined(json, "data") THEN UndefinedRead("slug")
    ELSE textResult("Page \"" \o json.data.slug \o "\" updated. Fields changed: "
                    \o Join(json.data.updated, ", "))

(***************************************************************************)
(* delete_page (index.ts:253-265).                                         *)
(***************************************************************************)
delete_page_inputSchema(args) == RequiredString(args, "slug")

delete_page_handler(c) ==
    apiRequest(c, "DELETE", "/pages/" \o encodeURIComponent(c.args.slug), NoBody)

delete_page_render(args, json) ==
    textResult("Page \"" \o args.slug \o "\" deleted.")

(***************************************************************************)
(* get_leads (index.ts:267-320).  A number is a fraction num/den, den > 0. *)
(***************************************************************************)

\* z.number().min(1).max(500).optional(), the .int() forgotten
LimitSchemaNoInt(args) ==
    \/ ~Defined(args, "limit")
    \/ /\ args.limit.num >= 1 * args.limit.den
       /\ args.limit.num <= 500 * args.limit.den

\* z.number().int().min(1).max(500).optional()
LimitSchema(args) ==
    \/ ~Defined(args, "limit")
    \/ /\ args.limit.num % args.limit.den = 0
       /\ args.limit.num >= 1 * args.limit.den
       /\ args.limit.num <= 500 * args.limit.den

get_leads_inputSchema(args) ==
    /\ RequiredString(args, "slug")
    /\ LimitSchema(args)

\* URLSearchParams.toString() of the pairs set, in the order set
QueryString(pairs) == Join(pairs, "&")

\* `${qs ? `?${qs}` : ""}`
QuerySuffix(qs) == IF qs # "" THEN "?" \o qs ELSE ""

get_leads_handler(c) ==
    LET qs == QueryString(
                (IF Truthy(c.args, "status")
                 THEN <<"status=" \o c.args.status>> ELSE <<>>) \o
                (IF Defined(c.args, "limit") /\ c.args.limit.num # 0
                 THEN <<"limit=" \o ToString(c.args.limit.num \div c.args.limit.den)>>
                 ELSE <<>>))
    IN  apiRequest(c, "GET",
                   "/pages/" \o encodeURIComponent(c.args.slug) \o "/leads"
                   \o QuerySuffix(qs), NoBody)

LeadLine(l) ==
    Join((IF Truthy(l, "name") THEN <<"Name: " \o l.name>> ELSE <<>>) \o
         (IF Truthy(l, "phone") THEN <<"Phone: " \o l.phone>> ELSE <<>>) \o
         (IF Truthy(l, "email") THEN <<"Email: " \o l.email>> ELSE <<>>) \o
         (IF Truthy(l, "message") THEN <<"Message: " \o l.message>> ELSE <<>>) \o
         <<"Status: " \o l.status,
           "Date: " \o toLocaleDateString(l.createdAt)>>,
         " | ")

get_leads_render(args, json) ==
    IF ~Defined(json, "data") THEN UndefinedRead("length")
    ELSE IF Len(json.data) = 0
    THEN textResult("No leads found for \"" \o args.slug \o "\".")
    ELSE textResult(ToString(TotalOrLength(json)) \o " lead(s) for \"" \o
                    args.slug \o "\":\n\n" \o
                    Join([n \in 1..Len(json.data) |-> LeadLine(json.data[n])], "\n"))

(***************************************************************************)
(* get_analytics (index.ts:322-379).                                       *)
(***************************************************************************)
get_analytics_inputSchema(args) == RequiredString(args, "slug")

get_analytics_handler(c) ==
    LET qs == QueryString(
                (IF Truthy(c.args, "from")
                 THEN <<"from=" \o c.args.from>> ELSE <<>>) \o
                (IF Truthy(c.args, "to")
                 THEN <<"to=" \o c.args.to>> ELSE <<>>))
    IN  apiRequest(c, "GET",
                   "/pages/" \o encodeURIComponent(c.args.slug) \o "/analytics"
                   \o QuerySuffix(qs), NoBody)

\* typeof data.period === "string" ? data.period : `${from} to ${to}`;
\* a period object is [from |-> .., to |-> ..], a label is [label |-> ..]
PeriodText(period) ==
    IF Defined(period, "label") THEN period.label
    ELSE period.from \o " to " \o period.to

get_analytics_render(args, json) ==
    IF ~Defined(json, "data") THEN UndefinedRead("period")
    ELSE LET data == json.data IN
         textResult(Join(
            <<"Analytics for \"" \o args.slug \o "\" (" \o PeriodText(data.period) \o "):",
              "",
              "Total Events:     " \o toLocaleString(data.totalEvents),
              "Page Views:       " \o toLocaleString(data.page_view),
              "Button Clicks:    " \o toLocaleString(data.button_click),
              "WhatsApp Clicks:  " \o toLocaleString(data.whatsapp_click),
              "Phone Clicks:     " \o toLocaleString(data.phone_click),
              "Email Clicks:     " \o toLocaleString(data.email_click),
              "Form Submits:     " \o toLocaleString(data.form_submit)>>,
            "\n"))

(***************************************************************************)
(* The handler after its await: apiRequest's outcome is rethrown or        *)
(* rendered.  No handler catches.                                          *)
(***************************************************************************)
Render(tool, args, json) ==
    CASE tool = "list_pages" -> list_pages_render(args, json)
      [] tool = "get_page" -> get_page_render(args, json)
      [] tool = "deploy_page" -> deploy_page_render(args, json)
      [] tool = "update_page" -> update_page_render(args, json)
      [] tool = "delete_page" -> delete_page_render(args, json)
      [] tool = "get_leads" -> get_leads_render(args, json)
      [] OTHER -> get_analytics_render(args, json)

\* what the invocation with arguments args returns or throws on response resp
Outcome(tool, args, resp) ==
    LET r == apiResponse(resp) IN
    IF r.ok THEN Render(tool, args, r.json) ELSE r.error


\* the arguments kept in one variable per tool, shared by its invocations
ClosureArgsShared(i) ==
    calls[CHOOSE j \in DOMAIN calls :
            calls[j].pc # "idle" /\ calls[j].tool = calls[i].tool].args

\* the arguments the resumed handler of invocation i reads: its own closure
ClosureArgs(i) == calls[i].args


\* apiRequest ends on response resp and the handler of invocation i runs to
\* its end
Resume(i, resp) ==
    Finish([calls[i] EXCEPT !.response = resp],
           Outcome(calls[i].tool, ClosureArgs(i), resp))

\* a rejected fetch is tried again
FetchRejectedRetry(i) == [calls[i] EXCEPT !.fetches = @ + 1]

\* await fetch(...) throws: apiRequest and the handler rethrow
FetchRejected(i) == Resume(i, [kind |-> "reject"])

\* await fetch(...) yields the Response: apiRequest calls res.json() and
\* suspends until the body has been read
FetchResolved(i) == [calls[i] EXCEPT !.pc = "reading"]

(***************************************************************************)
(* The inputs of the model: parameter records and backend responses.       *)
(***************************************************************************)
\* the sequences over S of length at most n
Seqs(S, n) == UNION {[1..k -> S] : k \in 0..n}

\* key k omitted, or given with a value of S
Opt(k, S) == {<<>>} \cup {k :> v : v \in S}

\* the records that take one part from each of two sets of records
Both(A, B) == {a @@ b : a \in A, b \in B}

SlugArg == Opt("slug", {"my-bakery", "a b"})

ListPagesArgs == Opt("status", PageStatuses \cup {"deleted"})

GetPageArgs == SlugArg

\* an asset named as the document, and two of one name with different bytes
AssetEntries ==
    {[filename |-> "index.html", content |-> "aGk="],
     [filename |-> "logo.png", content |-> "aGk="],
     [filename |-> "logo.png", content |-> "Ynll"]}

DeployPageArgs ==
    Both(Opt("html", {"<h1>hi</h1>"}),
    Both(Opt("assets", Seqs(AssetEntries, MaxAssets)),
    Both(Opt("slug", {"", "my-bakery"}),
    Both(Opt("locale", Locales \cup {"fr"}),
         Opt("whatsapp", {"972501234567"})))))

\* at most MaxFields of the optional fields, each "" or a value
FieldRecords ==
    UNION {[keys -> {"", "050-1234567"}] :
             keys \in {K \in SUBSET UpdateFields : Cardinality(K) <= MaxFields}}

UpdatePageArgs == Both(Opt("slug", {"my-bakery"}), FieldRecords)

DeletePageArgs == SlugArg

Limits ==
    {[num |-> 0, den |-> 1], [num |-> 1, den |-> 1], [num |-> 2, den |-> 1],
     [num |-> 500, den |-> 1], [num |-> 501, den |-> 1], [num |-> 3, den |-> 2]}

GetLeadsArgs ==
    Both(SlugArg, Both(Opt("status", {"", "new"}), Opt("limit", Limits)))

GetAnalyticsArgs ==
    Both(SlugArg, Both(Opt("from", {"2024-01-01"}), Opt("to", {"2024-01-31"})))

Failures ==
    {[success |-> FALSE,
      error |-> [code |-> "NOT_FOUND", message |-> "Page not found"]],
     [success |-> FALSE,
      error |-> [code |-> "RATE_LIMITED", message |-> "Too many requests"]]}

\* bodies that are neither a Success nor a Failure envelope
Malformed == {<<>>, [success |-> FALSE], [success |-> TRUE]}

Pages ==
    {[slug |-> "my-bakery", businessName |-> "My Bakery",
      status |-> "published", createdAt |-> "2024-01-15T10:00:00Z"],
     [slug |-> "a b", businessName |-> "",
      status |-> "draft", createdAt |-> "2024-02-01T08:30:00Z"]}

Leads ==
    {[name |-> "Dana", phone |-> "050-1234567", email |-> "dana@example.com",
      message |-> "Call me", status |-> "new",
      createdAt |-> "2024-01-15T10:00:00Z"],
     [name |-> "", phone |-> "050-1234567", status |-> "contacted",
      createdAt |-> "2024-02-01T08:30:00Z"],
     [status |-> "new", createdAt |-> "not a date"]}

\* Success envelopes around the array data: no total, or a total of 0, of the
\* length, or of three more than the length
ListSuccess(data) ==
    {[success |-> TRUE, data |-> data]} \cup
    {[success |-> TRUE, data |-> data, total |-> t] :
        t \in {0, Len(data), Len(data) + 3}}

Deployed ==
    Both({[slug |-> "my-bakery", url |-> "https://page4u.ai/my-bakery"]},
    Both(Opt("businessName", {"", "My Bakery"}),
         Opt("warnings", {<<>>, <<"No title">>, <<"No title", "Large image">>})))

Updated ==
    {[slug |-> "my-bakery", updated |-> <<"phone">>],
     [slug |-> "my-bakery", updated |-> <<"phone", "email">>]}

Analytics ==
    {[slug |-> "my-bakery", period |-> [label |-> "all-time"],
      totalEvents |-> 1234567, page_view |-> 1200000, button_click |-> 34000,
      whatsapp_click |-> 500, phone_click |-> 60, email_click |-> 7,
      form_submit |-> 0],
     [slug |-> "my-bakery",
      period |-> [from |-> "2024-01-01", to |-> "2024-01-31"],
      totalEvents |-> 1005, page_view |-> 1000, button_click |-> 5,
      whatsapp_click |-> 0, phone_click |-> 0, email_click |-> 0,
      form_submit |-> 0]}

SuccessBodies(tool) ==
    CASE tool = "list_pages" ->
           UNION {ListSuccess(d) : d \in Seqs(Pages, MaxRecords)}
      [] tool = "get_page" ->
           {[success |-> TRUE, data |-> d] : d \in Pages \cup {<<>>}}
      [] tool = "deploy_page" -> {[success |-> TRUE, data |-> d] : d \in Deployed}
      [] tool = "update_page" -> {[success |-> TRUE, data |-> d] : d \in Updated}
      [] tool = "delete_page" ->
           {[success |-> TRUE, data |-> [deleted |-> TRUE]]}
      [] tool = "get_leads" ->
           UNION {ListSuccess(d) : d \in Seqs(Leads, MaxRecords)}
      [] tool = "get_analytics" ->
           {[success |-> TRUE, data |-> d] : d \in Analytics}
      [] OTHER -> {}

\* what res.json() settles with
Responses(tool) ==
    {[kind |-> "bodyFails"], [kind |-> "null"]} \cup
    {[kind |-> "notJson", body |-> t] : t \in NotJsonBodies} \cup
    {[kind |-> "json", json |-> j] :
        j \in Failures \cup Malformed \cup SuccessBodies(tool)}

(***************************************************************************)
(* Actions.  A tool action is the boundary's parse of the arguments and    *)
(* the handler up to its first await; FetchRejects, FetchResolves and      *)
(* BodySettles are the rest of it.                                         *)
(***************************************************************************)
Init ==
    /\ API_KEY \in Credentials
    /\ runtime \in Runtimes
    /\ calls = [i \in Ids |-> Idle]

\* invocation i of `tool` with `args`: c is the invocation as it starts
Started(i, tool, args) == [calls[i] EXCEPT !.tool = tool, !.args = args]

list_pages(i, args) ==
    /\ calls[i].pc = "idle"
    /\ calls' = [calls EXCEPT ![i] =
          IF list_pages_inputSchema(args)
          THEN list_pages_handler(Started(i, "list_pages", args))
          ELSE Finish(Started(i, "list_pages", args), InvalidParams("list_pages"))]
    /\ UNCHANGED <<API_KEY, runtime>>

get_page(i, args) ==
    /\ calls[i].pc = "idle"
    /\ calls' = [calls EXCEPT ![i] =
          IF get_page_inputSchema(args)
          THEN get_page_handler(Started(i, "get_page", args))
          ELSE Finish(Started(i, "get_page", args), InvalidParams("get_page"))]
    /\ UNCHANGED <<API_KEY, runtime>>

deploy_page(i, args) ==
    /\ calls[i].pc = "idle"
    /\ calls' = [calls EXCEPT ![i] =
          IF deploy_page_inputSchema(args)
          THEN deploy_page_handler(Started(i, "deploy_page", args))
          ELSE Finish(Started(i, "deploy_page", args), InvalidParams("deploy_page"))]
    /\ UNCHANGED <<API_KEY, runtime>>

update_page(i, args) ==
    /\ calls[i].pc = "idle"
    /\ calls' = [calls EXCEPT ![i] =
          IF update_page_inputSchema(args)
          THEN update_page_handler(Started(i, "update_page", args))
          ELSE Finish(Started(i, "update_page", args), InvalidParams("update_page"))]
    /\ UNCHANGED <<API_KEY, runtime>>

delete_page(i, args) ==
    /\ calls[i].pc = "idle"
    /\ calls' = [calls EXCEPT ![i] =
          IF delete_page_inputSchema(args)
          THEN delete_page_handler(Started(i, "delete_page", args))
          ELSE Finish(Started(i, "delete_page", args), InvalidParams("delete_page"))]
    /\ UNCHANGED <<API_KEY, runtime>>

get_leads(i, args) ==
    /\ calls[i].pc = "idle"
    /\ calls' = [calls EXCEPT ![i] =
          IF get_leads_inputSchema(args)
          THEN get_leads_handler(Started(i, "get_leads", args))
          ELSE Finish(Started(i, "get_leads", args), InvalidParams("get_leads"))]
    /\ UNCHANGED <<API_KEY, runtime>>

get_analytics(i, args) ==
    /\ calls[i].pc = "idle"
    /\ calls' = [calls EXCEPT ![i] =
          IF get_analytics_inputSchema(args)
          THEN get_analytics_handler(Started(i, "get_analytics", args))
          ELSE Finish(Started(i, "get_analytics", args),
                      InvalidParams("get_analytics"))]
    /\ UNCHANGED <<API_KEY, runtime>>

\* the fetch of invocation i rejects
FetchRejects(i) ==
    /\ calls[i].pc = "fetching"
    /\ calls' = [calls EXCEPT ![i] = FetchRejected(i)]
    /\ UNCHANGED <<API_KEY, runtime>>

\* the fetch of invocation i resolves with the Response, its body still open
FetchResolves(i) ==
    /\ calls[i].pc = "fetching"
    /\ calls' = [calls EXCEPT ![i] = FetchResolved(i)]
    /\ UNCHANGED <<API_KEY, runtime>>

\* res.json() of invocation i settles with resp and the handler runs to its end
BodySettles(i, resp) ==
    /\ calls[i].pc = "reading"
    /\ calls' = [calls EXCEPT ![i] = Resume(i, resp)]
    /\ UNCHANGED <<API_KEY, runtime>>

(***************************************************************************)
(* Spec: one invocation at a time, over the full inputs.                   *)
(***************************************************************************)
\* the invocation ids in use when the client awaits each call before the next
OneAtATime == {1}

Next ==
    \E i \in OneAtATime :
        \/ \E a \in ListPagesArgs : list_pages(i, a)
        \/ \E a \in GetPageArgs : get_page(i, a)
        \/ \E a \in DeployPageArgs : deploy_page(i, a)
        \/ \E a \in UpdatePageArgs : update_page(i, a)
        \/ \E a \in DeletePageArgs : delete_page(i, a)
        \/ \E a \in GetLeadsArgs : get_leads(i, a)
        \/ \E a \in GetAnalyticsArgs : get_analytics(i, a)
        \/ FetchRejects(i)
        \/ FetchResolves(i)
        \/ \E resp \in Responses(calls[i].tool) : BodySettles(i, resp)

Spec == Init /\ [][Next]_vars

(***************************************************************************)
(* SpecConc: up to MaxInFlight invocations in flight at once, started and  *)
(* settled in any order, over a few parameter records and responses of     *)
(* each tool.                                                              *)
(***************************************************************************)
Bakery == "slug" :> "my-bakery"

ConcDeployArgs ==
    {"html" :> "<h1>hi</h1>",
     "html" :> "<h1>hi</h1>" @@
     "assets" :> <<[filename |-> "logo.png", content |-> "aGk="]>>}

ConcUpdateArgs == {Bakery @@ "phone" :> "050-1234567", Bakery}

ConcSlugArgs == {Bakery, "slug" :> "a b"}

ConcSuccess(tool) ==
    CASE tool = "list_pages" ->
           [success |-> TRUE, data |-> <<CHOOSE p \in Pages : p.slug = "a b">>]
      [] tool = "get_leads" ->
           [success |-> TRUE, total |-> 5,
            data |-> <<CHOOSE l \in Leads : Truthy(l, "name")>>]
      [] OTHER -> CHOOSE j \in SuccessBodies(tool) : TRUE

ConcResponses(tool) ==
    IF tool = "" THEN {}
    ELSE {[kind |-> "notJson", body |-> "<html>oops</html>"],
          [kind |-> "json", json |-> CHOOSE f \in Failures : TRUE],
          [kind |-> "json", json |-> ConcSuccess(tool)]}

NextConc ==
    \E i \in Ids :
        \/ list_pages(i, <<>>)
        \/ get_page(i, Bakery)
        \/ \E a \in ConcDeployArgs : deploy_page(i, a)
        \/ \E a \in ConcUpdateArgs : update_page(i, a)
        \/ \E a \in ConcSlugArgs : delete_page(i, a)
        \/ \E a \in ConcSlugArgs : get_leads(i, a)
        \/ get_analytics(i, Bakery)
        \/ FetchRejects(i)
        \/ FetchResolves(i)
        \/ \E resp \in ConcResponses(calls[i].tool) : BodySettles(i, resp)

SpecConc == Init /\ [][NextConc]_vars

(***************************************************************************)
(* Helpers of the properties.                                              *)
(***************************************************************************)
\* the declared schema of `tool` accepts args
SchemaOk(tool, args) ==
    CASE tool = "list_pages" -> list_pages_inputSchema(args)
      [] tool = "get_page" -> get_page_inputSchema(args)
      [] tool = "deploy_page" -> deploy_page_inputSchema(args)
      [] tool = "update_page" -> update_page_inputSchema(args)
      [] tool = "delete_page" -> delete_page_inputSchema(args)
      [] tool = "get_leads" -> get_leads_inputSchema(args)
      [] OTHER -> get_analytics_inputSchema(args)

\* an invocation that has been made
Made(c) == c.pc # "idle"

\* update_page invoked with no field other than slug
NoFieldGiven(c) == c.tool = "update_page" /\ DOMAIN c.args \subseteq {"slug"}

\* the response is a JSON object
JsonBody(c) == c.response # <<>> /\ c.response.kind = "json"

\* the Success arm: success true and data present
SuccessArm(json) ==
    Defined(json, "success") /\ json.success = TRUE /\ Defined(json, "data")

\* the Failure arm: success false and error {code, message}
FailureArm(json) ==
    /\ Defined(json, "success") /\ json.success = FALSE
    /\ Defined(json, "error")
    /\ Defined(json.error, "code") /\ Defined(json.error, "message")

(***************************************************************************)
(* C1.  With a valid parameter record and a credential, an invocation      *)
(* issues exactly one fetch; update_page with no field other than slug     *)
(* issues none and returns "No fields to update."; list_pages on zero      *)
(* pages still issues one.  No invocation issues two.                      *)
(***************************************************************************)
C1_ExactlyOneFetch ==
    \A i \in Ids :
        LET c == calls[i] IN
        /\ c.fetches <= 1
        /\ (Made(c) /\ API_KEY # "" /\ SchemaOk(c.tool, c.args)) =>
              IF NoFieldGiven(c)
              THEN /\ c.fetches = 0
                   /\ c.pc = "done"
                   /\ c.result = textResult("No fields to update.")
              ELSE c.fetches = 1
        /\ (c.pc = "done" /\ c.tool = "list_pages"
            /\ TextOf(c.result) = "No pages found.") => c.fetches = 1

\* list_pages has returned "No pages found." after its one fetch
C1_Witness ==
    \E i \in Ids :
        /\ calls[i].pc = "done" /\ calls[i].tool = "list_pages"
        /\ JsonBody(calls[i]) /\ SuccessArm(calls[i].response.json)
        /\ Len(calls[i].response.json.data) = 0
        /\ TextOf(calls[i].result) = "No pages found."
        /\ calls[i].fetches = 1

(***************************************************************************)
(* C2.  With PAGE4U_API_KEY absent or empty, every call of apiRequest      *)
(* throws the configuration error that names the variable and the          *)
(* settings page, and fetch is never called.                               *)
(***************************************************************************)
C2_MissingKeyNoNetwork ==
    API_KEY = "" =>
        \A i \in Ids :
            LET c == calls[i] IN
            /\ c.fetches = 0
            /\ c.request = <<>>
            /\ (Made(c) /\ SchemaOk(c.tool, c.args) /\ ~NoFieldGiven(c)) =>
                  /\ c.pc = "done"
                  /\ c.result = Throw("Error",
                        "PAGE4U_API_KEY environment variable is not set. Get your key at https://page4u.ai/dashboard/settings")

\* deploy_page bundled its assets and then failed on the missing key
C2_Witness ==
    /\ API_KEY = ""
    /\ \E i \in Ids :
          /\ calls[i].pc = "done" /\ calls[i].tool = "deploy_page"
          /\ calls[i].zips = 1
          /\ IsError(calls[i].result)
          /\ calls[i].result.message = ConfigMessage
          /\ calls[i].fetches = 0

(***************************************************************************)
(* C3.  deploy_page sends exactly one file part: index.html holding the    *)
(* document, with no AdmZip built, when assets is omitted or empty;        *)
(* site.zip, with one AdmZip built, when assets has an entry.              *)
(***************************************************************************)
C3_PayloadShapeByAssets ==
    \A i \in Ids :
        LET c == calls[i] IN
        (Made(c) /\ c.tool = "deploy_page" /\ SchemaOk(c.tool, c.args)) =>
            LET files == {n \in DOMAIN c.formData : c.formData[n].name = "file"}
                file == c.formData[CHOOSE n \in files : TRUE]
            IN  /\ Cardinality(files) = 1
                /\ IF "assets" \in DOMAIN c.args /\ Len(c.args.assets) >= 1
                   THEN /\ c.zips = 1
                        /\ file.filename = "site.zip"
                        /\ file.type = "application/zip"
                        /\ "zip" \in DOMAIN file
                   ELSE /\ c.zips = 0
                        /\ file.filename = "index.html"
                        /\ file.type = "text/html"
                        /\ file.text = c.args.html
                /\ c.pc \in {"fetching", "reading"} =>
                      c.request.body.value = c.formData

\* deploy_page given an empty assets array has sent the single file
C3_Witness ==
    \E i \in Ids :
        /\ calls[i].pc = "fetching" /\ calls[i].tool = "deploy_page"
        /\ "assets" \in DOMAIN calls[i].args
        /\ calls[i].args.assets = <<>>
        /\ calls[i].zips = 0
        /\ calls[i].request.body.value[1].filename = "index.html"

(***************************************************************************)
(* C4.  For a non-empty asset list the archive's entry names are           *)
(* index.html and the assets' filenames, and nothing is dropped or         *)
(* overwritten on a collision: there is one entry per file added,          *)
(* index.html holds the document and every asset's bytes are in the        *)
(* archive under its filename.                                             *)
(***************************************************************************)
C4_ArchiveKeepsEveryEntry ==
    \A i \in Ids :
        LET c == calls[i] IN
        (Made(c) /\ c.tool = "deploy_page" /\ SchemaOk(c.tool, c.args)
         /\ "assets" \in DOMAIN c.args /\ Len(c.args.assets) >= 1) =>
            LET zip == c.formData[1].zip
                assets == c.args.assets
            IN  /\ {zip[n].entryName : n \in DOMAIN zip} =
                     {"index.html"} \cup {assets[n].filename : n \in DOMAIN assets}
                /\ Len(zip) = 1 + Len(assets)
                /\ \E n \in DOMAIN zip :
                      zip[n].entryName = "index.html" /\ zip[n].data = c.args.html
                /\ \A a \in DOMAIN assets : \E n \in DOMAIN zip :
                      /\ zip[n].entryName = assets[a].filename
                      /\ zip[n].data = Base64Decode(assets[a].content)

(***************************************************************************)
(* C5.  On a Failure envelope {code, message} the invocation throws an     *)
(* error whose message is "<code>: <message>", after its single fetch;     *)
(* an invocation ends with either a text result or an error, and has no    *)
(* result at all before it ends.                                           *)
(***************************************************************************)
C5_FailureRaisesCodeAndMessage ==
    \A i \in Ids :
        LET c == calls[i] IN
        /\ (c.pc = "done" /\ JsonBody(c) /\ FailureArm(c.response.json)) =>
              /\ c.result.kind = "throw"
              /\ c.result.message =
                    c.response.json.error.code \o ": "
                    \o c.response.json.error.message
              /\ c.fetches = 1
        /\ c.pc = "done" => (IsText(c.result) # IsError(c.result))
        /\ c.pc # "done" => c.result = <<>>

\* get_page has thrown "NOT_FOUND: Page not found"
C5_Witness ==
    \E i \in Ids :
        /\ calls[i].pc = "done" /\ calls[i].tool = "get_page"
        /\ JsonBody(calls[i]) /\ FailureArm(calls[i].response.json)
        /\ IsError(calls[i].result)
        /\ calls[i].result.message = "NOT_FOUND: Page not found"

(***************************************************************************)
(* C6.  A response body that matches neither envelope arm fails the call   *)
(* in apiRequest: no invocation, delete_page and get_page included,        *)
(* returns a text for it.                                                  *)
(***************************************************************************)
C6_MalformedEnvelopeFails ==
    \A i \in Ids :
        LET c == calls[i] IN
        (c.pc = "done" /\ JsonBody(c)
         /\ ~SuccessArm(c.response.json) /\ ~FailureArm(c.response.json)) =>
            ~(IsText(c.result) /\ Defined(c.result.content[1], "text"))

(***************************************************************************)
(* C7.  update_page given at least one field sends one PUT whose JSON      *)
(* body has exactly the given fields as keys, never slug, each with the    *)
(* given value; a field given as "" is sent.                               *)
(***************************************************************************)
C7_UpdateSendsGivenFields ==
    \A i \in Ids :
        LET c == calls[i]
            given == DOMAIN c.args \ {"slug"}
        IN  (Made(c) /\ c.tool = "update_page" /\ "slug" \in DOMAIN c.args
             /\ API_KEY # "" /\ given # {}) =>
                /\ c.fetches = 1
                /\ c.request.method = "PUT"
                /\ c.request.body.kind = "json"
                /\ DOMAIN c.request.body.value = given
                /\ \A k \in given : c.request.body.value[k] = c.args[k]

\* update_page given only phone: "" has sent {"phone": ""}
C7_Witness ==
    \E i \in Ids :
        /\ Made(calls[i]) /\ calls[i].tool = "update_page"
        /\ DOMAIN calls[i].args = {"slug", "phone"}
        /\ calls[i].args.phone = ""
        /\ calls[i].fetches = 1
        /\ calls[i].request.body.value = ("phone" :> "")

(***************************************************************************)
(* C8.  A parameter record that violates the declared schema (no slug, no  *)
(* html, a status outside draft/published/archived, a locale outside       *)
(* he/en, a limit that is not an integer in 1..500) ends the call with a   *)
(* validation error before the handler runs: nothing is built or sent.     *)
(***************************************************************************)
NeedsSlug ==
    {"get_page", "update_page", "delete_page", "get_leads", "get_analytics"}

ViolatesSchema(tool, args) ==
    \/ tool \in NeedsSlug /\ "slug" \notin DOMAIN args
    \/ tool = "deploy_page" /\ "html" \notin DOMAIN args
    \/ /\ tool = "list_pages" /\ "status" \in DOMAIN args
       /\ args.status \notin {"draft", "published", "archived"}
    \/ /\ tool = "deploy_page" /\ "locale" \in DOMAIN args
       /\ args.locale \notin {"he", "en"}
    \/ /\ tool = "get_leads" /\ "limit" \in DOMAIN args
       /\ ~\E n \in 1..500 : args.limit.num = n * args.limit.den

C8_InvalidRecordNeverRuns ==
    \A i \in Ids :
        LET c == calls[i] IN
        (Made(c) /\ ViolatesSchema(c.tool, c.args)) =>
            /\ c.pc = "done"
            /\ IsError(c.result)
            /\ c.result.name = "McpError"
            /\ c.fetches = 0
            /\ c.request = <<>>
            /\ c.formData = <<>>
            /\ c.zips = 0

\* get_leads with limit 3/2 has ended with the validation error
C8_Witness ==
    \E i \in Ids :
        /\ calls[i].pc = "done" /\ calls[i].tool = "get_leads"
        /\ API_KEY # ""
        /\ "limit" \in DOMAIN calls[i].args
        /\ calls[i].args.limit = [num |-> 3, den |-> 2]
        /\ "slug" \in DOMAIN calls[i].args
        /\ IsError(calls[i].result)
        /\ calls[i].fetches = 0

(***************************************************************************)
(* C9.  get_leads and list_pages on a Success envelope of n records and an *)
(* optional total t: for n = 0 the fixed empty text, whatever t; for n > 0 *)
(* a header counting t when total is present and n otherwise, then one     *)
(* line per record in the order returned.                                  *)
(***************************************************************************)
RECURSIVE LinesInOrder(_, _)
\* the lines of the records, first to last, each after a line break
LinesInOrder(tool, data) ==
    IF Len(data) = 0 THEN ""
    ELSE LinesInOrder(tool, SubSeq(data, 1, Len(data) - 1)) \o
         (IF Len(data) = 1 THEN "" ELSE "\n") \o
         (IF tool = "get_leads" THEN LeadLine(data[Len(data)])
          ELSE PageLine(data[Len(data)]))

C9_ListRendering ==
    \A i \in Ids :
        LET c == calls[i] IN
        (c.pc = "done" /\ c.tool \in {"get_leads", "list_pages"}
         /\ JsonBody(c) /\ SuccessArm(c.response.json)) =>
            LET json == c.response.json
                n == Len(json.data)
                count == IF "total" \in DOMAIN json THEN json.total ELSE n
            IN  /\ IsText(c.result)
                /\ (n = 0 /\ c.tool = "get_leads") =>
                      TextOf(c.result) =
                        "No leads found for \"" \o c.args.slug \o "\"."
                /\ (n = 0 /\ c.tool = "list_pages") =>
                      TextOf(c.result) = "No pages found."
                /\ (n > 0 /\ c.tool = "get_leads") =>
                      TextOf(c.result) =
                        ToString(count) \o " lead(s) for \"" \o c.args.slug
                        \o "\":\n\n" \o LinesInOrder(c.tool, json.data)
                /\ (n > 0 /\ c.tool = "list_pages") =>
                      TextOf(c.result) =
                        ToString(count) \o " page(s):\n\n"
                        \o LinesInOrder(c.tool, json.data)

\* get_leads for my-bakery on 2 leads of 5 has rendered the header and 2 lines
C9_Witness ==
    \E i \in Ids :
        /\ calls[i].pc = "done" /\ calls[i].tool = "get_leads"
        /\ JsonBody(calls[i]) /\ SuccessArm(calls[i].response.json)
        /\ Len(calls[i].response.json.data) = 2
        /\ "total" \in DOMAIN calls[i].response.json
        /\ calls[i].response.json.total = 5
        /\ TextOf(calls[i].result) =
             "5 lead(s) for \"my-bakery\":\n\n" \o
             "Name: Dana | Phone: 050-1234567 | Email: dana@example.com | Message: Call me | Status: new | Date: 1/15/2024\n" \o
             "Phone: 050-1234567 | Status: contacted | Date: 2/1/2024"

(***************************************************************************)
(* C10.  Invocations in flight together are independent: in every          *)
(* interleaving each one sends the request and ends with the result it     *)
(* would alone, given its own parameter record, its own response and the   *)
(* credential, and the credential (like the runtime the process runs on)   *)
(* never changes.                                                          *)
(***************************************************************************)
\* the invocation of `tool` with args, run alone up to its await
Alone(tool, args) ==
    LET c == [Idle EXCEPT !.tool = tool, !.args = args] IN
    IF ~SchemaOk(tool, args) THEN Finish(c, InvalidParams(tool))
    ELSE CASE tool = "list_pages" -> list_pages_handler(c)
           [] tool = "get_page" -> get_page_handler(c)
           [] tool = "deploy_page" -> deploy_page_handler(c)
           [] tool = "update_page" -> update_page_handler(c)
           [] tool = "delete_page" -> delete_page_handler(c)
           [] tool = "get_leads" -> get_leads_handler(c)
           [] OTHER -> get_analytics_handler(c)

AsAlone(c) ==
    Made(c) =>
        LET alone == Alone(c.tool, c.args) IN
        /\ c.request = alone.request
        /\ c.formData = alone.formData
        /\ c.fetches = alone.fetches
        /\ c.response = <<>> =>
              /\ c.result = alone.result
              /\ \/ c.pc = alone.pc
                 \/ c.pc = "reading" /\ alone.pc = "fetching"
        /\ c.response # <<>> =>
              /\ c.pc = "done"
              /\ c.result = Outcome(c.tool, c.args, c.response)

C10_ConcurrentIndependent ==
    /\ [](\A i \in Ids : AsAlone(calls[i]))
    /\ [][API_KEY' = API_KEY /\ runtime' = runtime]_vars

\* a delete_page was started and ended with the text for its own slug while
\* another, for a different slug, stayed suspended between its fetch and the
\* end of its body
C10_Witness ==
    \E i, j \in Ids :
        /\ i # j
        /\ calls[i].tool = "delete_page" /\ calls[j].tool = "delete_page"
        /\ calls[i].args.slug = "my-bakery" /\ calls[j].args.slug = "a b"
        /\ calls[i].pc = "reading" /\ calls[i].fetches = 1
        /\ calls[j].pc = "done" /\ calls[j].fetches = 1
        /\ TextOf(calls[j].result) = "Page \"a b\" deleted."

====
